---- MODULE Spec2Model ----
(***************************************************************************)
(* Model of the server-function demo (src/src/app.rs).                     *)
(*                                                                         *)
(*   Spec        the server: add_row, get_rows, upload_file/add_chunk and  *)
(*               file_progress/for_file running as concurrent tasks over   *)
(*               the shared N, ROWS and FILES.                             *)
(***************************************************************************)
EXTENDS Integers, Sequences, FiniteSets, TLC

\* ------------------------------------------------------------------ bounds
NumTasks == 3
MaxCalls == 3
MaxUploads == 2
MaxServerCalls == 2
MaxChunks == 1
MaxPad == 18
MaxStr == 2
MaxRaw == 2
MaxItems == 2
MaxStreams == 2
MaxLongCalls == 260
MaxLongChunks == 129
MaxProgressCalls == 3
MaxFields == 2
MaxFieldChunks == 2

\* -------------------------------------------------------- program constants
U8Modulus == 256
ErrorEvery == 3
ErrorResidue == 2
CapAddChunk == 1048
CapForFile == 128
MinLen == 5
MaxLen == 15

\* the tasks serving add_row and get_rows, and those serving every server function
RowTasks == 1..NumTasks
ServerTasks == {1, 2}
NoTask == 0
Texts == {"a", "b"}
Filenames == {"f1", "f2"}
ChunkLens == {1, 2}

VARIABLES
    N,          \* static N: AtomicU8 of add_row
    ROWS,       \* static ROWS: Mutex<Vec<String>>, the protected vector
    rowsLock,   \* the task holding the ROWS mutex, or NoTask
    FILES,      \* progress::FILES, filename -> File (or absent)
    filesGuard, \* filename -> the task holding that entry's guard, or NoTask
    task,       \* per task: the server function it runs, its position, its locals
    callsLeft,  \* number of calls the clients may still start
    okAdds,     \* number of add_row calls that returned Ok
    subs,       \* streams handed out by for_file: <<filename, position>>
    up,         \* one ascii_uppercase call: its input, the handler's result, the
                \* bytes on the wire and what the client decoded
    call,       \* one call of a server function that uses the Toml encoding
    cons        \* one client loop over a streamed text response

serverVars == <<N, ROWS, rowsLock, FILES, filesGuard, task, callsLeft, okAdds, subs>>
clientVars == <<up, call, cons>>
vars == <<N, ROWS, rowsLock, FILES, filesGuard, task, callsLeft, okAdds, subs, up, call, cons>>

Ok(v) == <<"Ok", v>>
Err(e) == <<"Err", e>>
IsOk(r) == r[1] = "Ok"
IsErr(r) == r[1] = "Err"

\* ------------------------------------------------------------ server state

\* The place where reading a multipart body fails: at the reading of field
\* number field (kind "field"), at the reading of chunk number chunk of that
\* field (kind "chunk"), or nowhere.
NoFailure == [kind |-> "none", field |-> 0, chunk |-> 0]

Idle == [fn |-> "none", pc |-> "idle", text |-> "", nth_run |-> 0, len |-> 0,
         ret |-> <<"none">>, data |-> <<>>, chunks |-> <<>>, name |-> "",
         new_total |-> 0, body |-> <<>>, fail |-> NoFailure, fi |-> 0, ci |-> 0,
         count |-> 0]

\* no ascii_uppercase call
NoUpper == [stage |-> "none", text |-> <<>>, inner |-> <<"none">>,
            result |-> <<"none">>, wire |-> <<"none">>, client |-> <<"none">>]

\* no call of a Toml server function
NoCall == [stage |-> "none", value |-> <<"none">>, request |-> <<"none">>,
           args |-> <<"none">>, out |-> <<"none">>, response |-> <<"none">>,
           try_new_post |-> FALSE, sent |-> FALSE, tampered |-> FALSE,
           reqRead |-> <<"none">>, resRead |-> <<"none">>,
           rIntoReq |-> <<"none">>, rFromReq |-> <<"none">>,
           rIntoRes |-> <<"none">>, rFromRes |-> <<"none">>,
           result |-> <<"none">>]

\* no client loop over a stream
NoConsumer == [kind |-> "none", pc |-> "none", produced |-> <<>>, rest |-> <<>>,
               seen |-> <<>>, shown |-> <<>>, streams |-> 0]

NoFile == [present |-> FALSE, total |-> 0, cap |-> 0, queue |-> <<>>, added |-> <<>>]

\* broadcast(cap) and File { total: 0, tx, rx }: an empty channel of that capacity.
\* The File keeps its own receiver rx, which nothing ever polls, so every message
\* broadcast stays in the queue.  added is the history of total: the running
\* totals in the order add_chunk added the chunks.
NewFile(cap) ==
    [present |-> TRUE, total |-> 0, cap |-> cap, queue |-> <<>>, added |-> <<>>]

\* FILES.entry(filename).or_insert_with(|| ... broadcast(cap) ...)
OrInsertWith(f, cap) == IF FILES[f].present THEN FILES[f] ELSE NewFile(cap)

\* The positions at which a task is suspended at an .await
AwaitPcs == {"sleep", "next_field", "chunk", "broadcast"}

Suspended(t) == task[t].pc \in AwaitPcs

HoldsLock(t) == rowsLock = t \/ \E f \in Filenames : filesGuard[f] = t

\* every call made so far has returned
AllReturned == \A t \in DOMAIN task : task[t].pc \in {"idle", "done"}

ReturnedOk(t) == task[t].pc = "done" /\ task[t].ret[1] = "Ok"

\* A lock that is handed out whether or not it is held
MutexFreeUnchecked == TRUE

\* Mutex::lock can be taken only when no task holds it.
MutexFree == rowsLock = NoTask

\* DashMap::entry can take the entry's guard only when no task holds it.
GuardFree(f) == filesGuard[f] = NoTask

\* The multipart bodies a client may submit: one field of up to MaxChunks chunks.
ChunkSeqs == UNION {[1..n -> ChunkLens] : n \in 0..MaxChunks}

InitServer(tasks, budget) ==
    /\ N = 0
    /\ ROWS = <<>>
    /\ rowsLock = NoTask
    /\ FILES = [f \in Filenames |-> NoFile]
    /\ filesGuard = [f \in Filenames |-> NoTask]
    /\ task = [t \in tasks |-> Idle]
    /\ callsLeft = budget
    /\ okAdds = 0
    /\ subs = {}

\* ------------------------------------------------------- add_row, get_rows

CallAddRow(t, text) ==
    /\ task[t].pc \in {"idle", "done"}
    /\ callsLeft > 0
    /\ callsLeft' = callsLeft - 1
    /\ task' = [task EXCEPT ![t] = [Idle EXCEPT !.fn = "add_row", !.pc = "sleep",
                                                !.text = text]]
    /\ UNCHANGED clientVars
    /\ UNCHANGED <<N, ROWS, rowsLock, FILES, filesGuard, okAdds, subs>>

\* tokio::time::sleep(250ms).await completes
AddRowWake(t) ==
    /\ task[t].fn = "add_row" /\ task[t].pc = "sleep"
    /\ task' = [task EXCEPT ![t].pc = "fetch_add"]
    /\ UNCHANGED clientVars
    /\ UNCHANGED <<N, ROWS, rowsLock, FILES, filesGuard, callsLeft, okAdds, subs>>

\* AtomicU8::fetch_add(1): returns the old value, wraps at 2^8
FetchAdd(n) == (n + 1) % U8Modulus

\* nth_run % 3 == 2
ShouldFail(nth_run) == nth_run % ErrorEvery = ErrorResidue

AddRowFetchAdd(t) ==
    /\ task[t].fn = "add_row" /\ task[t].pc = "fetch_add"
    /\ N' = FetchAdd(N)
    /\ task' = [task EXCEPT ![t].nth_run = N,
                            ![t].pc = IF ShouldFail(N) THEN "done" ELSE "lock",
                            ![t].ret = IF ShouldFail(N) THEN <<"Err">> ELSE <<"none">>]
    /\ UNCHANGED clientVars
    /\ UNCHANGED <<ROWS, rowsLock, FILES, filesGuard, callsLeft, okAdds, subs>>

\* let mut rows = ROWS.lock().unwrap();
AddRowLock(t) ==
    /\ task[t].fn = "add_row" /\ task[t].pc = "lock"
    /\ MutexFree
    /\ rowsLock' = t
    /\ task' = [task EXCEPT ![t].pc = "push_read"]
    /\ UNCHANGED clientVars
    /\ UNCHANGED <<N, ROWS, FILES, filesGuard, callsLeft, okAdds, subs>>

\* rows.push(text): Vec::push reads the length ...
AddRowPushRead(t) ==
    /\ task[t].fn = "add_row" /\ task[t].pc = "push_read"
    /\ task' = [task EXCEPT ![t].len = Len(ROWS), ![t].pc = "push_write"]
    /\ UNCHANGED clientVars
    /\ UNCHANGED <<N, ROWS, rowsLock, FILES, filesGuard, callsLeft, okAdds, subs>>

\* A push that puts the element in front
VecPushFront(v, len, x) == <<x>> \o SubSeq(v, 1, len)

\* ... and writes the element at that index and the length plus one.
VecPush(v, len, x) == SubSeq(v, 1, len) \o <<x>>

AddRowPushWrite(t) ==
    /\ task[t].fn = "add_row" /\ task[t].pc = "push_write"
    /\ ROWS' = VecPush(ROWS, task[t].len, task[t].text)
    /\ task' = [task EXCEPT ![t].pc = "ret"]
    /\ UNCHANGED clientVars
    /\ UNCHANGED <<N, rowsLock, FILES, filesGuard, callsLeft, okAdds, subs>>

\* Ok(rows.len()); the guard is dropped at the end of the block
AddRowReturn(t) ==
    /\ task[t].fn = "add_row" /\ task[t].pc = "ret"
    /\ task' = [task EXCEPT ![t].ret = <<"Ok", Len(ROWS)>>, ![t].len = 0,
                            ![t].pc = "done"]
    /\ rowsLock' = NoTask
    /\ okAdds' = okAdds + 1
    /\ UNCHANGED clientVars
    /\ UNCHANGED <<N, ROWS, FILES, filesGuard, callsLeft, subs>>

CallGetRows(t) ==
    /\ task[t].pc \in {"idle", "done"}
    /\ callsLeft > 0
    /\ callsLeft' = callsLeft - 1
    /\ task' = [task EXCEPT ![t] = [Idle EXCEPT !.fn = "get_rows", !.pc = "sleep"]]
    /\ UNCHANGED clientVars
    /\ UNCHANGED <<N, ROWS, rowsLock, FILES, filesGuard, okAdds, subs>>

GetRowsWake(t) ==
    /\ task[t].fn = "get_rows" /\ task[t].pc = "sleep"
    /\ task' = [task EXCEPT ![t].pc = "lock"]
    /\ UNCHANGED clientVars
    /\ UNCHANGED <<N, ROWS, rowsLock, FILES, filesGuard, callsLeft, okAdds, subs>>

\* ROWS.lock().unwrap()
GetRowsLock(t) ==
    /\ task[t].fn = "get_rows" /\ task[t].pc = "lock"
    /\ MutexFree
    /\ rowsLock' = t
    /\ task' = [task EXCEPT ![t].pc = "len"]
    /\ UNCHANGED clientVars
    /\ UNCHANGED <<N, ROWS, FILES, filesGuard, callsLeft, okAdds, subs>>

\* Ok(... .len()); the temporary guard is dropped at the end of the statement
GetRowsReturn(t) ==
    /\ task[t].fn = "get_rows" /\ task[t].pc = "len"
    /\ task' = [task EXCEPT ![t].ret = <<"Ok", Len(ROWS)>>, ![t].pc = "done"]
    /\ rowsLock' = NoTask
    /\ UNCHANGED clientVars
    /\ UNCHANGED <<N, ROWS, FILES, filesGuard, callsLeft, okAdds, subs>>

\* ------------------------------------- upload_file, progress, file_progress

CallUploadFile(t, f, cs) ==
    /\ task[t].pc \in {"idle", "done"}
    /\ callsLeft > 0
    /\ callsLeft' = callsLeft - 1
    /\ task' = [task EXCEPT ![t] = [Idle EXCEPT !.fn = "upload_file",
                                    !.pc = "next_field",
                                    !.data = <<[name |-> f, chunks |-> cs]>>]]
    /\ UNCHANGED clientVars
    /\ UNCHANGED <<N, ROWS, rowsLock, FILES, filesGuard, okAdds, subs>>

\* while let Ok(Some(mut field)) = data.next_field().await
UploadNextField(t) ==
    /\ task[t].fn = "upload_file" /\ task[t].pc = "next_field"
    /\ task' = IF task[t].data = <<>>
               THEN [task EXCEPT ![t].pc = "done", ![t].ret = <<"Ok">>]
               ELSE [task EXCEPT ![t].name = Head(task[t].data).name,
                                 ![t].chunks = Head(task[t].data).chunks,
                                 ![t].data = Tail(task[t].data),
                                 ![t].pc = "chunk"]
    /\ UNCHANGED clientVars
    /\ UNCHANGED <<N, ROWS, rowsLock, FILES, filesGuard, callsLeft, okAdds, subs>>

\* while let Ok(Some(chunk)) = field.chunk().await
UploadChunk(t) ==
    /\ task[t].fn = "upload_file" /\ task[t].pc = "chunk"
    /\ task' = IF task[t].chunks = <<>>
               THEN [task EXCEPT ![t].pc = "next_field"]
               ELSE [task EXCEPT ![t].len = Head(task[t].chunks),
                                 ![t].chunks = Tail(task[t].chunks),
                                 ![t].pc = "entry"]
    /\ UNCHANGED clientVars
    /\ UNCHANGED <<N, ROWS, rowsLock, FILES, filesGuard, callsLeft, okAdds, subs>>

\* add_chunk, under the entry's guard:
\*   let mut entry = FILES.entry(filename).or_insert_with(.. broadcast(1048) ..);
\*   entry.total += len; let new_total = entry.total; let tx = entry.tx.clone();
AddChunkEntry(t) ==
    LET f == task[t].name
        file == OrInsertWith(f, CapAddChunk)
    IN  /\ task[t].fn = "upload_file" /\ task[t].pc = "entry"
        /\ GuardFree(f)
        /\ filesGuard' = [filesGuard EXCEPT ![f] = t]
        /\ FILES' = [FILES EXCEPT ![f] =
                        [file EXCEPT !.total = @ + task[t].len,
                                     !.added = Append(@, file.total + task[t].len)]]
        /\ task' = [task EXCEPT ![t].new_total = file.total + task[t].len,
                                ![t].len = 0,
                                ![t].pc = "drop"]
        /\ UNCHANGED clientVars
        /\ UNCHANGED <<N, ROWS, rowsLock, callsLeft, okAdds, subs>>

\* add_chunk without its drop(entry): the guard lives to the end of the function
GuardAfterDropKept(t, f) == t

\* The holder of the entry's guard once add_chunk has run drop(entry)
GuardAfterDrop(t, f) == NoTask

\* drop(entry);
AddChunkDrop(t) ==
    /\ task[t].fn = "upload_file" /\ task[t].pc = "drop"
    /\ filesGuard' = [filesGuard EXCEPT ![task[t].name] = GuardAfterDrop(t, task[t].name)]
    /\ task' = [task EXCEPT ![t].pc = "broadcast"]
    /\ UNCHANGED clientVars
    /\ UNCHANGED <<N, ROWS, rowsLock, FILES, callsLeft, okAdds, subs>>

\* tx.broadcast(new_total).await: completes once the channel has room
AddChunkBroadcast(t) ==
    /\ task[t].fn = "upload_file" /\ task[t].pc = "broadcast"
    /\ Len(FILES[task[t].name].queue) < FILES[task[t].name].cap
    /\ FILES' = [FILES EXCEPT ![task[t].name].queue = Append(@, task[t].new_total)]
    /\ task' = [task EXCEPT ![t].new_total = 0, ![t].pc = "chunk"]
    /\ UNCHANGED clientVars
    /\ UNCHANGED <<N, ROWS, rowsLock, filesGuard, callsLeft, okAdds, subs>>

CallFileProgress(t, f) ==
    /\ task[t].pc \in {"idle", "done"}
    /\ callsLeft > 0
    /\ callsLeft' = callsLeft - 1
    /\ task' = [task EXCEPT ![t] = [Idle EXCEPT !.fn = "file_progress",
                                    !.pc = "for_file", !.name = f]]
    /\ UNCHANGED clientVars
    /\ UNCHANGED <<N, ROWS, rowsLock, FILES, filesGuard, okAdds, subs>>

\* for_file: let entry = FILES.entry(filename).or_insert_with(.. broadcast(128) ..)
ForFileEntry(t) ==
    /\ task[t].fn = "file_progress" /\ task[t].pc = "for_file"
    /\ GuardFree(task[t].name)
    /\ filesGuard' = [filesGuard EXCEPT ![task[t].name] = t]
    /\ FILES' = [FILES EXCEPT ![task[t].name] = OrInsertWith(task[t].name, CapForFile)]
    /\ task' = [task EXCEPT ![t].pc = "clone"]
    /\ UNCHANGED clientVars
    /\ UNCHANGED <<N, ROWS, rowsLock, callsLeft, okAdds, subs>>

\* entry.rx.clone(): a receiver at the stored receiver's position, the start of
\* the queue; the entry guard is dropped as for_file returns, and file_progress
\* returns Ok(TextStream::new(..)).
ForFileReturn(t) ==
    /\ task[t].fn = "file_progress" /\ task[t].pc = "clone"
    /\ subs' = subs \cup {<<task[t].name, 0>>}
    /\ filesGuard' = [filesGuard EXCEPT ![task[t].name] = NoTask]
    /\ task' = [task EXCEPT ![t].pc = "done", ![t].ret = <<"Ok">>]
    /\ UNCHANGED clientVars
    /\ UNCHANGED <<N, ROWS, rowsLock, FILES, callsLeft, okAdds>>

\* A subscriber polls the stream file_progress returned: it receives the message
\* of the queue at its position.
SubRecv(sub) ==
    /\ sub \in subs
    /\ sub[2] < Len(FILES[sub[1]].queue)
    /\ subs' = (subs \ {sub}) \cup {<<sub[1], sub[2] + 1>>}
    /\ UNCHANGED clientVars
    /\ UNCHANGED <<N, ROWS, rowsLock, FILES, filesGuard, task, callsLeft, okAdds>>

\* What the subscriber has received so far
Received(sub) == SubSeq(FILES[sub[1]].queue, 1, sub[2])

NextRows ==
    \/ \E t \in DOMAIN task, text \in Texts : CallAddRow(t, text)
    \/ \E t \in DOMAIN task : AddRowWake(t)
    \/ \E t \in DOMAIN task : AddRowFetchAdd(t)
    \/ \E t \in DOMAIN task : AddRowLock(t)
    \/ \E t \in DOMAIN task : AddRowPushRead(t)
    \/ \E t \in DOMAIN task : AddRowPushWrite(t)
    \/ \E t \in DOMAIN task : AddRowReturn(t)
    \/ \E t \in DOMAIN task : CallGetRows(t)
    \/ \E t \in DOMAIN task : GetRowsWake(t)
    \/ \E t \in DOMAIN task : GetRowsLock(t)
    \/ \E t \in DOMAIN task : GetRowsReturn(t)

NextUpload ==
    \/ \E t \in DOMAIN task, f \in Filenames, cs \in ChunkSeqs : CallUploadFile(t, f, cs)
    \/ \E t \in DOMAIN task : UploadNextField(t)
    \/ \E t \in DOMAIN task : UploadChunk(t)
    \/ \E t \in DOMAIN task : AddChunkEntry(t)
    \/ \E t \in DOMAIN task : AddChunkDrop(t)
    \/ \E t \in DOMAIN task : AddChunkBroadcast(t)
    \/ \E t \in DOMAIN task, f \in Filenames : CallFileProgress(t, f)
    \/ \E t \in DOMAIN task : ForFileEntry(t)
    \/ \E t \in DOMAIN task : ForFileReturn(t)

NextServer == NextRows \/ NextUpload

\* no client call of the codec, error and streaming examples is in progress
ClientUnused == up = NoUpper /\ call = NoCall /\ cons = NoConsumer

InitRows == InitServer(RowTasks, MaxCalls) /\ ClientUnused

\* add_row and get_rows under concurrent calls
Spec == InitRows /\ [][NextRows]_vars

InitUpload == InitServer(ServerTasks, MaxUploads) /\ ClientUnused

\* upload_file and file_progress under concurrent calls
SpecUpload == InitUpload /\ [][NextUpload]_vars

InitAllServer == InitServer(ServerTasks, MaxServerCalls) /\ ClientUnused

\* every server function of the two groups, concurrently
SpecServer == InitAllServer /\ [][NextServer]_vars

InitProgress == InitServer(ServerTasks, MaxProgressCalls) /\ ClientUnused

NextProgress ==
    \/ \E t \in DOMAIN task, cs \in ChunkSeqs : CallUploadFile(t, "f1", cs)
    \/ \E t \in DOMAIN task : UploadNextField(t)
    \/ \E t \in DOMAIN task : UploadChunk(t)
    \/ \E t \in DOMAIN task : AddChunkEntry(t)
    \/ \E t \in DOMAIN task : AddChunkDrop(t)
    \/ \E t \in DOMAIN task : AddChunkBroadcast(t)
    \/ \E t \in DOMAIN task : CallFileProgress(t, "f1")
    \/ \E t \in DOMAIN task : ForFileEntry(t)
    \/ \E t \in DOMAIN task : ForFileReturn(t)
    \/ \E sub \in subs : SubRecv(sub)

\* uploads of one file and subscribers to its progress
SpecProgress == InitProgress /\ [][NextProgress]_vars

\* A multipart body of one field of MaxLongChunks chunks of one byte
LongChunks == [i \in 1..MaxLongChunks |-> 1]

InitLongUpload == InitServer({1}, 2) /\ ClientUnused

NextLongUpload ==
    \/ \E t \in DOMAIN task : CallFileProgress(t, "f1")
    \/ \E t \in DOMAIN task : ForFileEntry(t)
    \/ \E t \in DOMAIN task : ForFileReturn(t)
    \/ \E t \in DOMAIN task : CallUploadFile(t, "f1", LongChunks)
    \/ \E t \in DOMAIN task : UploadNextField(t)
    \/ \E t \in DOMAIN task : UploadChunk(t)
    \/ \E t \in DOMAIN task : AddChunkEntry(t)
    \/ \E t \in DOMAIN task : AddChunkDrop(t)
    \/ \E t \in DOMAIN task : AddChunkBroadcast(t)

\* file_progress and an upload of many chunks, one call after the other
SpecLongUpload == InitLongUpload /\ [][NextLongUpload]_vars

\* ------------------------------------------------------------- file_length

\* The multipart bodies a client may submit to file_length: up to MaxFields
\* fields, each the sequence of the byte lengths of its chunks.
FieldChunks == UNION {[1..n -> ChunkLens] : n \in 0..MaxFieldChunks}
Bodies == UNION {[1..n -> FieldChunks] : n \in 0..MaxFields}

\* The places where the reading of body may fail.  Reading may also fail where
\* the end of the field or of the body would be found.
Failures(body) ==
    {NoFailure}
    \cup {[kind |-> "field", field |-> i, chunk |-> 0] : i \in 1..(Len(body) + 1)}
    \cup UNION {{[kind |-> "chunk", field |-> i, chunk |-> j] :
                    j \in 1..(Len(body[i]) + 1)} : i \in 1..Len(body)}

RECURSIVE SumSeq(_)
SumSeq(lens) == IF lens = <<>> THEN 0 ELSE Head(lens) + SumSeq(Tail(lens))

RECURSIVE TotalBytes(_)
\* The byte lengths of every chunk of every field of a body, added up
TotalBytes(body) ==
    IF body = <<>> THEN 0 ELSE SumSeq(Head(body)) + TotalBytes(Tail(body))

\* let mut data = data.into_inner().unwrap(); let mut count = 0;
CallFileLength(t, body, fail) ==
    /\ task[t].pc \in {"idle", "done"}
    /\ callsLeft > 0
    /\ callsLeft' = callsLeft - 1
    /\ task' = [task EXCEPT ![t] = [Idle EXCEPT !.fn = "file_length",
                                    !.pc = "next_field", !.body = body,
                                    !.fail = fail, !.fi = 1]]
    /\ UNCHANGED clientVars
    /\ UNCHANGED <<N, ROWS, rowsLock, FILES, filesGuard, okAdds, subs>>

\* while let Ok(Some(mut field)) = data.next_field().await: the loop ends on
\* Ok(None) and on Err(_) alike, and Ok(count) follows it.
FileLengthNextField(t) ==
    LET me == task[t]
        err == me.fail.kind = "field" /\ me.fail.field = me.fi
        none == me.fi > Len(me.body)
    IN  /\ me.fn = "file_length" /\ me.pc = "next_field"
        /\ task' = IF err \/ none
                   THEN [task EXCEPT ![t].pc = "done", ![t].ret = Ok(me.count)]
                   ELSE [task EXCEPT ![t].pc = "chunk", ![t].ci = 1]
        /\ UNCHANGED clientVars
        /\ UNCHANGED <<N, ROWS, rowsLock, FILES, filesGuard, callsLeft, okAdds, subs>>

\* while let Ok(Some(chunk)) = field.chunk().await { count += chunk.len(); }: the
\* loop ends on Ok(None) and on Err(_) alike, and the next field is asked for.
FileLengthChunk(t) ==
    LET me == task[t]
        err == me.fail.kind = "chunk" /\ me.fail.field = me.fi /\ me.fail.chunk = me.ci
        none == me.ci > Len(me.body[me.fi])
    IN  /\ me.fn = "file_length" /\ me.pc = "chunk"
        /\ task' = IF err \/ none
                   THEN [task EXCEPT ![t].pc = "next_field", ![t].fi = @ + 1,
                                     ![t].ci = 0]
                   ELSE [task EXCEPT ![t].count = @ + me.body[me.fi][me.ci],
                                     ![t].ci = @ + 1]
        /\ UNCHANGED clientVars
        /\ UNCHANGED <<N, ROWS, rowsLock, FILES, filesGuard, callsLeft, okAdds, subs>>

InitLength == InitServer({1}, 1) /\ ClientUnused

NextLength ==
    \/ \E t \in DOMAIN task, body \in Bodies :
          \E fail \in Failures(body) : CallFileLength(t, body, fail)
    \/ \E t \in DOMAIN task : FileLengthNextField(t)
    \/ \E t \in DOMAIN task : FileLengthChunk(t)

\* one call of file_length
SpecLength == InitLength /\ [][NextLength]_vars

InitLongRun == InitServer({1}, MaxLongCalls) /\ ClientUnused

NextLongRun ==
    \/ \E t \in DOMAIN task : CallAddRow(t, "a")
    \/ \E t \in DOMAIN task : AddRowWake(t)
    \/ \E t \in DOMAIN task : AddRowFetchAdd(t)
    \/ \E t \in DOMAIN task : AddRowLock(t)
    \/ \E t \in DOMAIN task : AddRowPushRead(t)
    \/ \E t \in DOMAIN task : AddRowPushWrite(t)
    \/ \E t \in DOMAIN task : AddRowReturn(t)

\* a long run of add_row calls, one after the other, past the wrap of N
SpecLongRun == InitLongRun /\ [][NextLongRun]_vars

\* --------------------------------------------------------- ascii_uppercase

\* A String is a sequence of chars.  The chars the inputs are built from: ASCII
\* lower case, upper case and digit, and two chars that UTF-8 encodes in 2 and 3
\* bytes.
Chars == {"a", "Z", "1", "e_acute", "euro"}

\* The number of bytes of a char's UTF-8 encoding
Utf8Len(c) == CASE c = "e_acute" -> 2 [] c = "euro" -> 3 [] OTHER -> 1

IsAsciiChar(c) == Utf8Len(c) = 1

\* char::to_ascii_uppercase on the lower-case letters in use
Lower == {"a", "e", "h", "i", "l", "o"}
ToAsciiUppercaseChar(c) ==
    CASE c = "a" -> "A" [] c = "e" -> "E" [] c = "h" -> "H"
      [] c = "i" -> "I" [] c = "l" -> "L" [] c = "o" -> "O" [] OTHER -> c

RECURSIVE StrLen(_)
\* String::len: the length in bytes
StrLen(text) == IF text = <<>> THEN 0 ELSE Utf8Len(Head(text)) + StrLen(Tail(text))

\* str::is_ascii
IsAscii(text) == \A i \in 1..Len(text) : IsAsciiChar(text[i])

\* str::to_ascii_uppercase
ToAsciiUppercase(text) == [i \in 1..Len(text) |-> ToAsciiUppercaseChar(text[i])]

\* ascii_uppercase_inner with text.len() <= 5 for text.len() < 5
AsciiUppercaseInnerOffByOne(text) ==
    IF StrLen(text) <= MinLen THEN Err("TooShort")
    ELSE IF StrLen(text) > MaxLen THEN Err("TooLong")
    ELSE IF IsAscii(text) THEN Ok(ToAsciiUppercase(text))
    ELSE Err("NotAscii")

\* ascii_uppercase_inner testing is_ascii before the lengths
AsciiUppercaseInnerAsciiFirst(text) ==
    IF ~IsAscii(text) THEN Err("NotAscii")
    ELSE IF StrLen(text) < MinLen THEN Err("TooShort")
    ELSE IF StrLen(text) > MaxLen THEN Err("TooLong")
    ELSE Ok(ToAsciiUppercase(text))

\* pub fn ascii_uppercase_inner(text: String) -> Result<String, InvalidArgument>
ascii_uppercase_inner(text) ==
    IF StrLen(text) < MinLen THEN Err("TooShort")
    ELSE IF StrLen(text) > MaxLen THEN Err("TooLong")
    ELSE IF IsAscii(text) THEN Ok(ToAsciiUppercase(text))
    ELSE Err("NotAscii")

\* pub fn other_error() -> Result<(), String>
other_error == Ok(<<>>)

InvalidArgument == {"TooShort", "TooLong", "NotAscii"}
ServerFnErrorErr == {"Registration", "Request", "ServerError", "MiddlewareError",
                     "Deserialization", "Serialization", "Args", "MissingArg",
                     "Response", "UnsupportedRequestMethod"}

\* A conversion that keeps only the error's text
FromInvalidArgumentAsText(value) == <<"Other", value>>

\* impl From<InvalidArgument> for MyErrors
FromInvalidArgument(value) == <<"InvalidArgument", value>>

\* impl From<String> for MyErrors
FromString(value) == <<"Other", value>>

\* impl FromServerFnError for MyErrors: from_server_fn_error
from_server_fn_error(value) == <<"ServerFnError", value>>

\* #[server] pub async fn ascii_uppercase(text: String) -> Result<String, MyErrors>
\*   other_error()?;  Ok(ascii_uppercase_inner(text)?)
ascii_uppercase(text) ==
    IF IsErr(other_error) THEN Err(FromString(other_error[2]))
    ELSE LET r == ascii_uppercase_inner(text)
         IN  IF IsErr(r) THEN Err(FromInvalidArgument(r[2])) ELSE Ok(r[2])

\* type Encoder = RkyvEncoding, over the derived rkyv::Archive of MyErrors and
\* InvalidArgument: an enum is archived as its discriminant followed by its field.
Discriminant(variants, v) == CHOOSE i \in 1..Len(variants) : variants[i] = v
MyErrorsVariants == <<"InvalidArgument", "ServerFnError", "Other">>
InvalidArgumentVariants == <<"TooShort", "TooLong", "NotAscii">>

RkyvEncode(e) ==
    <<Discriminant(MyErrorsVariants, e[1]) - 1>> \o
    (IF e[1] = "InvalidArgument"
     THEN <<Discriminant(InvalidArgumentVariants, e[2]) - 1>>
     ELSE <<e[2]>>)

\* Decoding checks each discriminant; bytes that are no MyErrors decode to
\* ServerFnErrorErr::Deserialization(..).into_app_error()
RkyvDecode(bytes) ==
    IF Len(bytes) = 2 /\ bytes[1] \in 0..2
    THEN IF bytes[1] = 0
         THEN IF bytes[2] \in 0..2
              THEN <<"InvalidArgument", InvalidArgumentVariants[bytes[2] + 1]>>
              ELSE from_server_fn_error("Deserialization")
         ELSE <<MyErrorsVariants[bytes[1] + 1], bytes[2]>>
    ELSE from_server_fn_error("Deserialization")

RECURSIVE Pad(_, _)
Pad(c, n) == IF n = 0 THEN <<>> ELSE <<c>> \o Pad(c, n - 1)

Hello == <<"h", "e", "l", "l", "o">>
Hi == <<"h", "i">>

\* The texts submitted: up to two arbitrary chars followed by a run of one char,
\* and the two texts "hello" and "hi".
UpperInputs ==
    {Hello, Hi} \cup
    {head \o Pad(c, n) : head \in UNION {[1..k -> Chars] : k \in 0..2},
                         c \in Chars, n \in 0..MaxPad}

\* no server function of the first group is called
ServerUnused == InitServer({}, 0)

InitUpper ==
    /\ ServerUnused
    /\ \E text \in UpperInputs : up = [NoUpper EXCEPT !.stage = "called", !.text = text]
    /\ call = NoCall
    /\ cons = NoConsumer

\* The server runs the handler.
UpperHandle ==
    /\ up.stage = "called"
    /\ up' = [up EXCEPT !.stage = "handled",
                        !.inner = ascii_uppercase_inner(up.text),
                        !.result = ascii_uppercase(up.text)]
    /\ UNCHANGED <<serverVars, call, cons>>

\* The server writes the response: an Ok value as the output encoding's body, an
\* Err value as the bytes of the error type's Encoder.
UpperRespond ==
    /\ up.stage = "handled"
    /\ up' = [up EXCEPT !.stage = "sent",
                        !.wire = IF IsOk(up.result)
                                 THEN <<"value", up.result[2]>>
                                 ELSE <<"error", RkyvEncode(up.result[2])>>]
    /\ UNCHANGED <<serverVars, call, cons>>

\* The client decodes the response.
UpperDecode ==
    /\ up.stage = "sent"
    /\ up' = [up EXCEPT !.stage = "decoded",
                        !.client = IF up.wire[1] = "value"
                                   THEN Ok(up.wire[2])
                                   ELSE Err(RkyvDecode(up.wire[2]))]
    /\ UNCHANGED <<serverVars, call, cons>>

NextUpper == UpperHandle \/ UpperRespond \/ UpperDecode

\* one ascii_uppercase call, from the client's input to the client's result
SpecUpper == InitUpper /\ [][NextUpper]_vars

\* ------------------------------------------------- the Toml encoding, why_not

\* impl ContentType for Toml
CONTENT_TYPE == "application/toml"

\* The chars of the strings passed: a letter, a double quote, a backslash and a
\* line feed.
StrChars == {"a", "DQ", "BS", "NL"}
Strs == UNION {[1..n -> StrChars] : n \in 0..MaxStr}

\* The values of the payload types: the two structs of why_not, and a bare
\* String, a T that is Serialize but is not a TOML table.
WhyNotArgs(original, addition) == <<"WhyNotArgs", original, addition>>
WhyNotResult(original, modified) == <<"WhyNotResult", original, modified>>
BareString(x) == <<"String", x>>

\* The keys of each struct, in declaration order
Fields(type) ==
    CASE type = "WhyNotArgs" -> <<"original", "addition">>
      [] type = "WhyNotResult" -> <<"original", "modified">>
      [] OTHER -> <<>>

\* A serializer that writes the chars of a string as they are
EscapeCharNone(c) == <<c>>

\* A TOML basic string escapes the quote, the backslash and the line feed.
EscapeChar(c) ==
    CASE c = "DQ" -> <<"BS", "DQ">>
      [] c = "BS" -> <<"BS", "BS">>
      [] c = "NL" -> <<"BS", "n">>
      [] OTHER -> <<c>>

RECURSIVE EscapeStr(_)
EscapeStr(x) == IF x = <<>> THEN <<>> ELSE EscapeChar(Head(x)) \o EscapeStr(Tail(x))

\* key = "value" and a line feed
TomlLine(key, x) == <<key, "EQ", "DQ">> \o EscapeStr(x) \o <<"DQ", "NL">>

\* toml::to_string: a struct is written as one line per field; a value that is
\* not a table is refused.
TomlToString(value) ==
    IF Fields(value[1]) = <<>> THEN Err("unsupported type")
    ELSE Ok(TomlLine(Fields(value[1])[1], value[2]) \o
            TomlLine(Fields(value[1])[2], value[3]))

BareKeys == {"original", "addition", "modified", "a", "n"}

RECURSIVE ParseStr(_, _)
\* The rest of a basic string after its opening quote: <<"Ok", chars, rest>>
ParseStr(ts, acc) ==
    IF ts = <<>> THEN <<"Err">>
    ELSE CASE Head(ts) = "DQ" -> <<"Ok", acc, Tail(ts)>>
           [] Head(ts) = "NL" -> <<"Err">>
           [] Head(ts) = "BS" ->
                IF Len(ts) < 2 THEN <<"Err">>
                ELSE CASE ts[2] = "DQ" -> ParseStr(Tail(Tail(ts)), Append(acc, "DQ"))
                       [] ts[2] = "BS" -> ParseStr(Tail(Tail(ts)), Append(acc, "BS"))
                       [] ts[2] = "n" -> ParseStr(Tail(Tail(ts)), Append(acc, "NL"))
                       [] OTHER -> <<"Err">>
           [] OTHER -> ParseStr(Tail(ts), Append(acc, Head(ts)))

RECURSIVE ParseDoc(_, _)
\* A document: lines key = "value", blank lines allowed, no key twice.
\* <<"Ok", <<key, value>> pairs>>
ParseDoc(ts, acc) ==
    IF ts = <<>> THEN <<"Ok", acc>>
    ELSE IF Head(ts) = "NL" THEN ParseDoc(Tail(ts), acc)
    ELSE IF Len(ts) < 3 \/ Head(ts) \notin BareKeys \/ ts[2] # "EQ" \/ ts[3] # "DQ"
         THEN <<"Err">>
    ELSE LET x == ParseStr(SubSeq(ts, 4, Len(ts)), <<>>)
         IN  IF x[1] = "Err" THEN <<"Err">>
             ELSE IF \E i \in 1..Len(acc) : acc[i][1] = Head(ts) THEN <<"Err">>
             ELSE IF x[3] # <<>> /\ Head(x[3]) # "NL" THEN <<"Err">>
             ELSE ParseDoc(x[3], Append(acc, <<Head(ts), x[2]>>))

Lookup(pairs, key) == (CHOOSE i \in 1..Len(pairs) : pairs[i][1] = key)

\* toml::from_str::<T>: the document must parse and hold every field of T
TomlFromStr(doc, type) ==
    LET d == ParseDoc(doc, <<>>)
    IN  IF d[1] = "Err" THEN Err("invalid TOML")
        ELSE IF \E k \in 1..2 : \A i \in 1..Len(d[2]) : d[2][i][1] # Fields(type)[k]
             THEN Err("missing field")
        ELSE Ok(<<type, d[2][Lookup(d[2], Fields(type)[1])][2],
                        d[2][Lookup(d[2], Fields(type)[2])][2]>>)

\* ServerFnErrorErr::V(..).into_app_error(), with the place that made it
AppError(variant, by) == <<variant, by>>

\* Request::try_new_post(path, content_type, accepts, body)
try_new_post(path, content_type, accepts, body, ok) ==
    IF ok THEN Ok([path |-> path, content_type |-> content_type,
                   accepts |-> accepts, body |-> body])
    ELSE Err(AppError("Request", "try_new_post"))

\* Response::try_from_string(content_type, data)
try_from_string(content_type, data, ok) ==
    IF ok THEN Ok([content_type |-> content_type, body |-> data])
    ELSE Err(AppError("Response", "try_from_string"))

\* into_req that sends an empty body when the value does not serialize
IntoReqUnwrapOrDefault(value, path, accepts, ok) ==
    LET data == TomlToString(value)
    IN  [try_new_post |-> TRUE,
         res |-> try_new_post(path, CONTENT_TYPE, accepts,
                              IF IsErr(data) THEN <<>> ELSE data[2], ok)]

\* impl IntoReq<Toml, Request, Err> for TomlEncoded<T>: into_req.
\* res is what it returns, try_new_post whether it called Request::try_new_post.
into_req(value, path, accepts, ok) ==
    LET data == TomlToString(value)
    IN  IF IsErr(data)
        THEN [try_new_post |-> FALSE, res |-> Err(AppError("Serialization", "into_req"))]
        ELSE [try_new_post |-> TRUE,
              res |-> try_new_post(path, CONTENT_TYPE, accepts, data[2], ok)]

\* from_req that reports a parse failure the way from_res does
FromReqAsDeserialization(read, type) ==
    IF IsErr(read) THEN read
    ELSE LET v == TomlFromStr(read[2], type)
         IN  IF IsErr(v) THEN Err(AppError("Deserialization", "from_req")) ELSE v

\* impl FromReq<Toml, Request, Err> for TomlEncoded<T>: from_req.
\* read is the result of req.try_into_string().await
from_req(read, type) ==
    IF IsErr(read) THEN read
    ELSE LET v == TomlFromStr(read[2], type)
         IN  IF IsErr(v) THEN Err(AppError("Args", "from_req")) ELSE v

\* into_res that sends an empty body when the value does not serialize
IntoResUnwrapOrDefault(value, ok) ==
    LET data == TomlToString(value)
    IN  try_from_string(CONTENT_TYPE, IF IsErr(data) THEN <<>> ELSE data[2], ok)

\* impl IntoRes<Toml, Response, Err> for TomlEncoded<T>: into_res
into_res(value, ok) ==
    LET data == TomlToString(value)
    IN  IF IsErr(data) THEN Err(AppError("Serialization", "into_res"))
        ELSE try_from_string(CONTENT_TYPE, data[2], ok)

\* impl FromRes<Toml, Response, Err> for TomlEncoded<T>: from_res.
\* read is the result of res.try_into_string().await
from_res(read, type) ==
    IF IsErr(read) THEN read
    ELSE LET v == TomlFromStr(read[2], type)
         IN  IF IsErr(v) THEN Err(AppError("Deserialization", "from_res")) ELSE v

\* format!("{original}{addition}")
Format(original, addition) == original \o addition

\* pub async fn why_not(original, addition) -> Result<TomlEncoded<WhyNotResult>, _>
why_not(original, addition) == Ok(WhyNotResult(original, Format(original, addition)))

\* The path the #[server] macro registers why_not under
PATH == "/api/why_not"

ClientValues ==
    {WhyNotArgs(original, addition) : original \in Strs, addition \in Strs}
        \cup {BareString(x) : x \in Strs}

\* Request bodies that did not come from into_req: every sequence of up to MaxRaw
\* tokens, a document that lacks a field, one with its keys in the other order,
\* one with an escape TOML does not know, and one with a key twice.
RawTokens == {"original", "addition", "EQ", "DQ", "BS", "a", "NL"}
RawBodies ==
    UNION {[1..n -> RawTokens] : n \in 0..MaxRaw} \cup
    { TomlLine("original", <<"a">>),
      TomlLine("addition", <<"a">>) \o TomlLine("original", <<"DQ">>),
      <<"original", "EQ", "DQ", "BS", "a", "DQ", "NL">> \o TomlLine("addition", <<>>),
      TomlLine("original", <<>>) \o TomlLine("original", <<>>)
    }

\* try_into_string().await: the body as a string, or whatever error the request or
\* response type reports for a body it cannot read as a string.
ReadResults(body) ==
    {Ok(body)} \cup {Err(AppError(e, "try_into_string")) : e \in ServerFnErrorErr}

InitCodec ==
    /\ ServerUnused
    /\ up = NoUpper
    /\ cons = NoConsumer
    /\ \/ \E v \in ClientValues : call = [NoCall EXCEPT !.stage = "Built", !.value = v]
       \/ \E raw \in RawBodies :
            call = [NoCall EXCEPT !.stage = "Sent", !.sent = TRUE,
                                  !.request = [path |-> PATH, content_type |-> CONTENT_TYPE,
                                               accepts |-> CONTENT_TYPE, body |-> raw]]

\* The client encodes the request: into_req
ClientIntoReq(ok) ==
    LET r == into_req(call.value, PATH, CONTENT_TYPE, ok)
    IN  /\ call.stage = "Built"
        /\ call' = [call EXCEPT !.rIntoReq = r.res,
                                !.try_new_post = r.try_new_post,
                                !.request = IF IsOk(r.res) THEN r.res[2] ELSE <<"none">>,
                                !.stage = IF IsOk(r.res) THEN "Encoded" ELSE "Failed",
                                !.result = IF IsOk(r.res) THEN <<"none">> ELSE r.res]
        /\ UNCHANGED <<serverVars, up, cons>>

\* A send that answers with an empty response of its own without sending
ClientSendSkipped(ok) ==
    /\ call.stage = "Encoded"
    /\ call' = [call EXCEPT !.stage = "AwaitingResponse",
                            !.response = <<"ok", [content_type |-> CONTENT_TYPE,
                                                  body |-> <<>>]>>]
    /\ UNCHANGED <<serverVars, up, cons>>

\* The client hands the request to Client::send, which delivers it or fails.
ClientSend(ok) ==
    /\ call.stage = "Encoded"
    /\ call' = [call EXCEPT !.sent = TRUE,
                            !.stage = IF ok THEN "Sent" ELSE "Failed",
                            !.result = IF ok THEN <<"none">>
                                       ELSE Err(AppError("Request", "Client::send"))]
    /\ UNCHANGED <<serverVars, up, cons>>

\* The server decodes the request: from_req.  A failure is answered with an error
\* response.
ServerFromReq ==
    /\ call.stage = "Sent"
    /\ \E read \in ReadResults(call.request.body) :
        LET r == from_req(read, "WhyNotArgs")
        IN  call' = [call EXCEPT !.reqRead = read,
                                !.rFromReq = r,
                                !.args = IF IsOk(r) THEN r[2] ELSE <<"none">>,
                                !.response = IF IsOk(r) THEN <<"none">> ELSE <<"error", r[2]>>,
                                !.stage = IF IsOk(r) THEN "Handling" ELSE "AwaitingResponse"]
    /\ UNCHANGED <<serverVars, up, cons>>

\* The server runs why_not (after its simulated wait).
ServerWhyNot ==
    /\ call.stage = "Handling"
    /\ call' = [call EXCEPT !.out = why_not(call.args[2], call.args[3])[2],
                            !.stage = "Handled"]
    /\ UNCHANGED <<serverVars, up, cons>>

\* TomlEncoded<T> is an output for every T: Serialize.  A server function that
\* answers with a bare String:
ServerBareString ==
    /\ call.stage = "Handling"
    /\ call' = [call EXCEPT !.out = BareString(call.args[2]), !.stage = "Handled"]
    /\ UNCHANGED <<serverVars, up, cons>>

\* The server encodes the response: into_res.  A failure is answered with an
\* error response.
ServerIntoRes(ok) ==
    LET r == into_res(call.out, ok)
    IN  /\ call.stage = "Handled"
        /\ call' = [call EXCEPT !.rIntoRes = r,
                                !.response = IF IsOk(r) THEN <<"ok", r[2]>>
                                             ELSE <<"error", r[2]>>,
                                !.stage = "AwaitingResponse"]
        /\ UNCHANGED <<serverVars, up, cons>>

\* The body that reaches the client is cut short of the one the server wrote.
ResponseCutShort ==
    /\ call.stage = "AwaitingResponse"
    /\ call.response[1] = "ok"
    /\ ~call.tampered
    /\ \E k \in 0..(Len(call.response[2].body) - 1) :
        call' = [call EXCEPT !.tampered = TRUE,
                            !.response = <<"ok", [call.response[2] EXCEPT
                                                  !.body = SubSeq(@, 1, k)]>>]
    /\ UNCHANGED <<serverVars, up, cons>>

\* The client receives an error response: the call fails with the server's error.
ClientErrorResponse ==
    /\ call.stage = "AwaitingResponse"
    /\ call.response[1] = "error"
    /\ call' = [call EXCEPT !.stage = "Failed", !.result = Err(call.response[2])]
    /\ UNCHANGED <<serverVars, up, cons>>

\* The client decodes the response: from_res
ClientFromRes ==
    /\ call.stage = "AwaitingResponse"
    /\ call.response[1] = "ok"
    /\ \E read \in ReadResults(call.response[2].body) :
        LET r == from_res(read, "WhyNotResult")
        IN  call' = [call EXCEPT !.resRead = read,
                                !.rFromRes = r,
                                !.stage = IF IsOk(r) THEN "Decoded" ELSE "Failed",
                                !.result = r]
    /\ UNCHANGED <<serverVars, up, cons>>

NextCodec ==
    \/ \E ok \in BOOLEAN : ClientIntoReq(ok)
    \/ \E ok \in BOOLEAN : ClientSend(ok)
    \/ ServerFromReq
    \/ ServerWhyNot
    \/ ServerBareString
    \/ \E ok \in BOOLEAN : ServerIntoRes(ok)
    \/ ResponseCutShort
    \/ ClientErrorResponse
    \/ ClientFromRes

\* one call of a server function with input = Toml, output = Toml
SpecCodec == InitCodec /\ [][NextCodec]_vars

\* ----------------------------------- the client loops over streamed responses

\* An item of a decoded TextStream: Ok(text) or a chunk that failed to decode
StreamErr == <<"Err", <<>>>>

\* The server's streams.  watched_files yields a file name per change.
WatchItems == {Ok(<<"a">>), Ok(<<"b">>), StreamErr}
WatchStreams == UNION {[1..n -> WatchItems] : n \in 0..MaxItems}

Digit == <<"1", "2", "3", "4", "5", "6", "7", "8", "9">>
DigitOf(n) == IF n = 0 THEN "0" ELSE Digit[n]
ValueOf(d) == IF d = "0" THEN 0 ELSE CHOOSE n \in 1..9 : Digit[n] = d
IsDigit(d) == d = "0" \/ \E n \in 1..9 : Digit[n] = d

\* format!("{bytes}\n"), for bytes under 100
FormatRow(bytes) ==
    (IF bytes < 10 THEN <<DigitOf(bytes)>>
     ELSE <<DigitOf(bytes \div 10), DigitOf(bytes % 10)>>) \o <<"NL">>

\* file_progress yields the running total after each chunk.
ProgressItems == {Ok(FormatRow(1)), Ok(FormatRow(3)), Ok(FormatRow(12)), StreamErr}
ProgressStreams == UNION {[1..n -> ProgressItems] : n \in 0..MaxItems}

\* What a call of a streaming server function gives the client: Ok(stream), or
\* an error
CallResults(streams) == {Ok(stream) : stream \in streams} \cup {StreamErr}

RECURSIVE Split(_, _)
\* str::split('\n'): the rows of a text, the empty ones included.
\* cur is the row being read.
Split(text, cur) ==
    IF text = <<>> THEN <<cur>>
    ELSE IF Head(text) = "NL" THEN <<cur>> \o Split(Tail(text), <<>>)
    ELSE Split(Tail(text), Append(cur, Head(text)))

\* .filter(|n| !n.is_empty())
NonEmpty(rows) == SelectSeq(rows, LAMBDA r : r # <<>>)

RECURSIVE ParseUsize(_, _)
\* str::parse::<usize>: <<"Ok", n>>, or <<"Err">> for a row that is no number
ParseUsize(row, acc) ==
    IF row = <<>> THEN <<"Ok", acc>>
    ELSE IF ~IsDigit(Head(row)) THEN <<"Err">>
    ELSE ParseUsize(Tail(row), 10 * acc + ValueOf(Head(row)))

\* The body of the progress loop on one chunk: the last non-empty row, parsed.
\* <<"Ok", len>>, or <<"panic">> where an expect fails.
LastLength(text) ==
    LET rows == NonEmpty(Split(text, <<>>))
    IN  IF rows = <<>> THEN <<"panic">>
        ELSE LET n == ParseUsize(rows[Len(rows)], 0)
             IN  IF n[1] = "Err" THEN <<"panic">> ELSE n

InitStream ==
    /\ ServerUnused
    /\ up = NoUpper
    /\ call = NoCall
    /\ \E kind \in {"FileWatcher", "FileUploadWithProgress"} :
          cons = [NoConsumer EXCEPT !.kind = kind, !.pc = "call"]

\* FileWatcher: watched_files().await.unwrap().into_inner() in the loop condition.
\* Every evaluation of the condition calls the server function and gets a new
\* stream; unwrap panics on a call that failed.
WatcherCall(result) ==
    /\ cons.kind = "FileWatcher" /\ cons.pc = "call"
    /\ cons.streams < MaxStreams
    /\ cons' = IF IsErr(result)
               THEN [cons EXCEPT !.pc = "panicked"]
               ELSE [cons EXCEPT !.produced = result[2], !.rest = result[2],
                                 !.seen = <<>>, !.streams = @ + 1, !.pc = "next"]
    /\ UNCHANGED <<serverVars, up, call>>

\* FileWatcher: .next().await on that stream, then the loop body.  The stream is a
\* temporary of the condition: it is dropped once the item is taken.
WatcherNext ==
    /\ cons.kind = "FileWatcher" /\ cons.pc = "next"
    /\ cons' = IF cons.rest = <<>>
               THEN [cons EXCEPT !.pc = "done"]
               ELSE IF IsOk(Head(cons.rest))
               THEN [cons EXCEPT !.shown = Append(@, Head(cons.rest)[2]),
                                 !.seen = Append(@, Head(cons.rest)[2]),
                                 !.rest = <<>>, !.pc = "call"]
               ELSE [cons EXCEPT !.rest = <<>>, !.pc = "call"]
    /\ UNCHANGED <<serverVars, up, call>>

\* FileUploadWithProgress: file_progress(filename).await.expect(..).into_inner(),
\* once, before the loop.
ProgressCall(result) ==
    /\ cons.kind = "FileUploadWithProgress" /\ cons.pc = "call"
    /\ cons.streams = 0
    /\ cons' = IF IsErr(result)
               THEN [cons EXCEPT !.pc = "panicked"]
               ELSE [cons EXCEPT !.produced = result[2], !.rest = result[2],
                                 !.seen = <<>>, !.streams = 1, !.pc = "next"]
    /\ UNCHANGED <<serverVars, up, call>>

\* FileUploadWithProgress: while let Some(Ok(len)) = progress.next().await { .. }
ProgressNext ==
    /\ cons.kind = "FileUploadWithProgress" /\ cons.pc = "next"
    /\ cons' = IF cons.rest = <<>> \/ IsErr(Head(cons.rest))
               THEN [cons EXCEPT !.pc = "done"]
               ELSE LET len == LastLength(Head(cons.rest)[2])
                    IN  IF len[1] = "panic"
                        THEN [cons EXCEPT !.pc = "panicked"]
                        ELSE [cons EXCEPT !.shown = <<len[2]>>,
                                          !.seen = Append(@, Head(cons.rest)[2]),
                                          !.rest = Tail(@)]
    /\ UNCHANGED <<serverVars, up, call>>

NextStream ==
    \/ \E result \in CallResults(WatchStreams) : WatcherCall(result)
    \/ WatcherNext
    \/ \E result \in CallResults(ProgressStreams) : ProgressCall(result)
    \/ ProgressNext

\* the two client loops, each over the streams its server function returns
SpecStream == InitStream /\ [][NextStream]_vars

\* ------------------------------------------------------------------ claims

\* C1: once every add_row call has completed, however the calls interleaved, the
\* length of ROWS equals the number of add_row calls that returned Ok.
C1_NoLostUpdate == AllReturned => Len(ROWS) = okAdds

\* Three add_row calls ran on three tasks; two returned Ok and one the error.
C1_Witness ==
    /\ AllReturned
    /\ \A t \in DOMAIN task : task[t].fn = "add_row" /\ task[t].pc = "done"
    /\ Cardinality({t \in DOMAIN task : ReturnedOk(t)}) = 2
    /\ okAdds = 2

\* C8: no server task suspended at an .await holds the ROWS mutex or a FILES
\* entry guard.
C8_NoLockAcrossAwait == \A t \in DOMAIN task : Suspended(t) => ~HoldsLock(t)

\* An upload waits in tx.broadcast(..).await, its guard released, while another
\* task holds a lock.
C8_Witness ==
    \E t, u \in DOMAIN task :
        /\ task[t].fn = "upload_file" /\ task[t].pc = "broadcast"
        /\ FILES[task[t].name].total > 0
        /\ HoldsLock(u)

UpperHandled == up.stage \in {"handled", "sent", "decoded"}

\* C2: when ascii_uppercase fails with a domain error variant, the client decodes
\* MyErrors::InvalidArgument of that same variant.
C2_ErrorFidelity ==
    (up.stage = "decoded" /\ IsErr(up.inner))
        => up.client = Err(<<"InvalidArgument", up.inner[2]>>)

\* "hi" was rejected as TooShort and the client decoded InvalidArgument(TooShort).
C2_Witness ==
    /\ up.stage = "decoded"
    /\ up.text = Hi
    /\ up.inner = Err("TooShort")
    /\ up.wire[1] = "error"
    /\ up.client = Err(<<"InvalidArgument", "TooShort">>)

\* C3: for ASCII text, fewer than 5 characters give TooShort, more than 15 give
\* TooLong, and 5 to 15 characters (both included) give the upper-cased text;
\* "hello" gives "HELLO", "hi" gives TooShort, 20 characters give TooLong.
C3_AsciiByLength ==
    (UpperHandled /\ IsAscii(up.text)) =>
        /\ Len(up.text) < 5 => up.inner = Err("TooShort")
        /\ Len(up.text) > 15 => up.inner = Err("TooLong")
        /\ Len(up.text) \in 5..15 =>
              /\ IsOk(up.inner)
              /\ Len(up.inner[2]) = Len(up.text)
              /\ \A i \in 1..Len(up.text) :
                    up.inner[2][i] = IF up.text[i] \in Lower
                                     THEN ToAsciiUppercaseChar(up.text[i])
                                     ELSE up.text[i]
        /\ up.text = Hello => up.inner = Ok(<<"H", "E", "L", "L", "O">>)
        /\ up.text = Hi => up.inner = Err("TooShort")
        /\ Len(up.text) = 20 => up.inner = Err("TooLong")

\* An ASCII text of exactly 15 characters, a lower-case letter among them, was
\* upper-cased.
C3_Witness ==
    /\ UpperHandled
    /\ IsAscii(up.text)
    /\ Len(up.text) = 15
    /\ IsOk(up.inner)
    /\ up.inner[2] # up.text

\* C4 as stated: every text with a non-ASCII character, whatever its length,
\* gives NotAscii.
C4_Original ==
    (UpperHandled /\ ~IsAscii(up.text)) =>
        /\ up.inner = Err("NotAscii")
        /\ up.result = Err(<<"InvalidArgument", "NotAscii">>)

\* C4 (amended): a text with a non-ASCII character gives NotAscii when its UTF-8
\* length is 5 to 15 bytes; under 5 bytes it gives TooShort and over 15 bytes
\* TooLong, because the lengths are tested first.
C4_NotAsciiWithinLength ==
    (UpperHandled /\ ~IsAscii(up.text)) =>
        LET e == IF StrLen(up.text) < 5 THEN "TooShort"
                 ELSE IF StrLen(up.text) > 15 THEN "TooLong"
                 ELSE "NotAscii"
        IN  /\ up.inner = Err(e)
            /\ up.result = Err(<<"InvalidArgument", e>>)

\* A text of three chars, six bytes, was rejected as NotAscii.
C4_Witness ==
    /\ UpperHandled
    /\ ~IsAscii(up.text)
    /\ Len(up.text) = 3
    /\ StrLen(up.text) = 6
    /\ up.inner = Err("NotAscii")

CodecSites == {"into_req", "from_req", "into_res", "from_res"}

\* The result r is exactly one error value
OneError(r) == IsErr(r) /\ Len(r) = 2 /\ r[2][1] \in ServerFnErrorErr

\* The result r is a Deserialization error made by one of the codec operations
MakesDeserialization(r) ==
    IsErr(r) /\ r[2][1] = "Deserialization" /\ r[2][2] \in CodecSites

FromReqRan == call.rFromReq # <<"none">>
FromResRan == call.rFromRes # <<"none">>

\* C5 as stated: whenever from_req fails on its request, it fails with Args and
\* never with Deserialization.
C5_Original ==
    (FromReqRan /\ IsErr(call.rFromReq)) =>
        /\ call.rFromReq[2][1] = "Args"
        /\ call.rFromReq[2][1] # "Deserialization"

\* C5 (amended): when from_req has read the body as a string and the string does
\* not parse as TOML for T, it fails with Args; when the body cannot be read as a
\* string, it returns the request's own error unchanged; and of the four codec
\* operations only from_res makes a Deserialization error.
C5_ArgsOnParseFailure ==
    /\ (FromReqRan /\ IsOk(call.reqRead)
            /\ IsErr(TomlFromStr(call.request.body, "WhyNotArgs")))
          => call.rFromReq = Err(<<"Args", "from_req">>)
    /\ (FromReqRan /\ IsErr(call.reqRead)) => call.rFromReq = call.reqRead
    /\ ~MakesDeserialization(call.rIntoReq)
    /\ ~MakesDeserialization(call.rFromReq)
    /\ ~MakesDeserialization(call.rIntoRes)
    /\ MakesDeserialization(call.rFromRes) => call.rFromRes[2][2] = "from_res"

\* A body that was read but is not a TOML document was refused with Args.
C5_Witness ==
    /\ FromReqRan
    /\ IsOk(call.reqRead)
    /\ ParseDoc(call.request.body, <<>>)[1] = "Err"
    /\ call.rFromReq = Err(<<"Args", "from_req">>)
    /\ call.stage = "Failed"

C9_NoSendOnEncodeFailure ==
    (call.value # <<"none">> /\ call.stage # "Built" /\ IsErr(TomlToString(call.value)))
        => /\ call.stage = "Failed"
           /\ call.result = Err(<<"Serialization", "into_req">>)
           /\ ~call.try_new_post
           /\ ~call.sent
           /\ call.request = <<"none">>

\* A call with a value that TOML cannot serialize has failed.
C9_Witness ==
    /\ call.value # <<"none">>
    /\ IsErr(TomlToString(call.value))
    /\ call.stage = "Failed"
    /\ call.rIntoReq = Err(<<"Serialization", "into_req">>)

\* C10: a serialization failure in into_req or into_res, a failure to read a body
\* and a parse failure in from_req or from_res each make the operation return
\* exactly one error; a call that ended Decoded met no failure, and a call that
\* ended Failed carries exactly one error.
C10_FailuresReturned ==
    /\ (call.value # <<"none">> /\ call.stage # "Built" /\ IsErr(TomlToString(call.value)))
          => OneError(call.rIntoReq)
    /\ (FromReqRan /\ (IsErr(call.reqRead)
                        \/ IsErr(TomlFromStr(call.request.body, "WhyNotArgs"))))
          => OneError(call.rFromReq)
    /\ (call.out # <<"none">> /\ call.stage # "Handled" /\ IsErr(TomlToString(call.out)))
          => OneError(call.rIntoRes)
    /\ (FromResRan /\ (IsErr(call.resRead)
                        \/ IsErr(TomlFromStr(call.response[2].body, "WhyNotResult"))))
          => OneError(call.rFromRes)
    /\ call.stage = "Failed" => OneError(call.result)
    /\ call.stage = "Decoded" =>
          /\ IsOk(call.result)
          /\ ~IsErr(call.rIntoReq) /\ ~IsErr(call.rFromReq)
          /\ ~IsErr(call.rIntoRes) /\ ~IsErr(call.rFromRes)

\* into_res could not serialize the handler's value, and the call ended Failed
\* with that Serialization error.
C10_Witness ==
    /\ call.stage = "Failed"
    /\ call.out # <<"none">>
    /\ IsErr(TomlToString(call.out))
    /\ call.rIntoRes = Err(<<"Serialization", "into_res">>)
    /\ call.result = call.rIntoRes

RECURSIVE DecodedPrefix(_)
\* The texts of the items of a stream up to its end or its first failed chunk
DecodedPrefix(stream) ==
    IF stream = <<>> \/ IsErr(Head(stream)) THEN <<>>
    ELSE <<Head(stream)[2]>> \o DecodedPrefix(Tail(stream))

\* The consumer has left the stream of its last call: its loop has ended, or it
\* has dropped the stream.
StreamLeft == cons.streams > 0 /\ cons.pc \in {"call", "done"}

\* C7: a consumer that has left a stream has observed every item the stream
\* decoded, in order, up to the stream's end or its first failed chunk.
C7_Original == StreamLeft => cons.seen = DecodedPrefix(cons.produced)

CallNumber == MaxLongCalls - callsLeft

\* C12: the k-th call of add_row returns the error exactly when k is a multiple
\* of 3, for every k.
C12_Original ==
    \A t \in DOMAIN task :
        (task[t].fn = "add_row" /\ task[t].pc = "done")
            => (IsErr(task[t].ret) <=> CallNumber % ErrorEvery = 0)

\* C13: no add_chunk of an upload_file call is stuck at its broadcast: a call
\* that waits there can go on, now or after another step of the program.
C13_Original ==
    \A t \in DOMAIN task :
        (task[t].fn = "upload_file" /\ task[t].pc = "broadcast")
            => ENABLED NextLongUpload

\* C14: what a subscriber has received from for_file is the running totals of
\* the chunks added for its file, from the first chunk on, in increasing order.
C14_Original ==
    \A sub \in subs :
        /\ Received(sub) = SubSeq(FILES[sub[1]].added, 1, sub[2])
        /\ \A i \in 1..(sub[2] - 1) : Received(sub)[i] < Received(sub)[i + 1]

\* The call of task t returns in this step
Returns(t) == task[t].pc # "done" /\ task'[t].pc = "done"

\* C15: in every step, ROWS changes only by the push of an add_row call, which
\* appends that call's text and keeps all the rows before it; an add_row call
\* that returns the error has not reached its push and returns without changing
\* ROWS; an add_row call that returns Ok(n) has appended its text as the n-th
\* row and n is the length of ROWS right after that append; get_rows returns the
\* length and leaves ROWS as it is.
C15_FrameEffects ==
    [][/\ ROWS' # ROWS =>
            \E t \in DOMAIN task :
                /\ task[t].fn = "add_row" /\ task[t].pc = "push_write"
                /\ task'[t].pc = "ret"
                /\ ROWS' = Append(ROWS, task[t].text)
       /\ \A t \in DOMAIN task :
            Returns(t) =>
                /\ ROWS' = ROWS
                /\ (task[t].fn = "add_row" /\ IsErr(task'[t].ret))
                      => task[t].pc = "fetch_add"
                /\ (task[t].fn = "add_row" /\ IsOk(task'[t].ret))
                      => /\ task[t].pc = "ret"
                         /\ task'[t].ret[2] = task[t].len + 1
                         /\ task'[t].ret[2] = Len(ROWS)
                         /\ ROWS[task'[t].ret[2]] = task[t].text
                /\ task[t].fn = "get_rows" => task'[t].ret = Ok(Len(ROWS))]_vars

\* Two calls have returned Ok, the later one Ok(2) with its text as the second
\* row, and a third call has returned the error.
C15_Witness ==
    /\ Len(ROWS) = 2
    /\ \E t \in DOMAIN task :
          /\ task[t].fn = "add_row" /\ task[t].pc = "done"
          /\ task[t].ret = Ok(2) /\ ROWS[2] = task[t].text
    /\ \E t \in DOMAIN task :
          task[t].fn = "add_row" /\ task[t].pc = "done" /\ IsErr(task[t].ret)

\* C16: when file_length has returned Ok(n), n is the sum of the byte lengths
\* of every chunk of every field of the body submitted to it.
C16_Original ==
    \A t \in DOMAIN task :
        (task[t].fn = "file_length" /\ task[t].pc = "done" /\ IsOk(task[t].ret))
            => task[t].ret[2] = TotalBytes(task[t].body)

====
